---- MODULE Spec2Model ----
(***************************************************************************)
(* The CSV-backed mini query engine of input-to-insight-studio:            *)
(*   - the client loader loadCSVData and the client executeCSVQuery        *)
(*     (src/unnamed/part_001, the csvUtils library),                       *)
(*   - the server loader parseCSV / parseCSVRow / parseCSVLine and the     *)
(*     server executeCSVQuery (supabase/functions/execute-sql/index.ts).   *)
(*   - executeQuery of the SQLQueryGenerator component, which asks the     *)
(*     server first and runs the client engine otherwise.                  *)
(* JavaScript strings are TLA+ strings; a character is a string of length  *)
(* one.  Array indices keep JavaScript's 0-based numbering, so element i   *)
(* of an array a is a[i + 1] here.                                         *)
(***************************************************************************)
EXTENDS Integers, Sequences, FiniteSets, TLC

VARIABLES csvData, loadedData, call,
          useLocalCSV, isExecuting, error, queryResult, exec,
          generatedSQL, isGenerating, gen

\* the component state generateSQLQuery writes besides error, and its
\* invocation
genVars == <<generatedSQL, isGenerating, gen>>

\* the component state executeQuery and generateSQLQuery read and write,
\* and their invocations
uiVars == <<useLocalCSV, isExecuting, error, queryResult, exec, genVars>>

vars == <<csvData, loadedData, call, useLocalCSV, isExecuting, error,
          queryResult, exec, generatedSQL, isGenerating, gen>>

(***************************************************************************)
(* String primitives (String.prototype methods and the character classes   *)
(* of the regular expressions).                                            *)
(***************************************************************************)
CharAt(s, i) == SubSeq(s, i, i)

\* characters a..b of s, 1-based and inclusive; "" when the range is empty
substring(s, a, b) ==
  IF a > b THEN "" ELSE SubSeq(s, a, IF b > Len(s) THEN Len(s) ELSE b)

UpperChars == "ABCDEFGHIJKLMNOPQRSTUVWXYZ"
LowerChars == "abcdefghijklmnopqrstuvwxyz"
DigitChars == "0123456789"

CharsOf(s) == {CharAt(s, i) : i \in 1..Len(s)}

UpperSet == CharsOf(UpperChars)
LowerSet == CharsOf(LowerChars)
DigitSet == CharsOf(DigitChars)

\* \s of the regular expressions, and the characters trim() removes
SpaceSet == {" ", "\t", "\n", "\r"}
\* the characters the regular expressions' "." does not match
NewlineSet == {"\n", "\r"}
\* \w of the regular expressions
WordSet == UpperSet \cup LowerSet \cup DigitSet \cup {"_"}
\* ['"] of the regular expressions
QuoteSet == {"'", "\""}

IsSpace(c) == c \in SpaceSet
IsWord(c) == c \in WordSet
IsDigit(c) == c \in DigitSet

LowerOf == [c \in UpperSet |->
              CharAt(LowerChars, CHOOSE i \in 1..26 : CharAt(UpperChars, i) = c)]

\* character by character; the string is halved to keep the recursion
\* shallow on the longest query texts
RECURSIVE toLowerCase(_)
toLowerCase(s) ==
  IF s = "" THEN ""
  ELSE IF Len(s) = 1
  THEN (IF s \in UpperSet THEN LowerOf[s] ELSE s)
  ELSE toLowerCase(substring(s, 1, Len(s) \div 2))
         \o toLowerCase(substring(s, Len(s) \div 2 + 1, Len(s)))

RECURSIVE trimStart(_)
trimStart(s) == IF s /= "" /\ IsSpace(Head(s)) THEN trimStart(Tail(s)) ELSE s

RECURSIVE trimEnd(_)
trimEnd(s) ==
  IF s /= "" /\ IsSpace(CharAt(s, Len(s)))
  THEN trimEnd(substring(s, 1, Len(s) - 1)) ELSE s

trim(s) == trimEnd(trimStart(s))

\* sub occurs in s at position i (1-based)
StartsAt(s, sub, i) ==
  /\ i >= 1
  /\ i + Len(sub) - 1 <= Len(s)
  /\ substring(s, i, i + Len(sub) - 1) = sub

includes(s, sub) == \E i \in 1..(Len(s) - Len(sub) + 1) : StartsAt(s, sub, i)

Min(S) == CHOOSE x \in S : \A y \in S : x <= y
Max(S) == CHOOSE x \in S : \A y \in S : x >= y

\* s.split(sep) for a one-character separator
RECURSIVE split(_, _)
split(s, sep) ==
  IF ~includes(s, sep) THEN <<s>>
  ELSE LET i == Min({k \in 1..Len(s) : CharAt(s, k) = sep})
       IN  <<substring(s, 1, i - 1)>> \o split(substring(s, i + 1, Len(s)), sep)

\* s.replace(/[chars]/g, '')
RECURSIVE removeChars(_, _)
removeChars(s, chars) ==
  IF s = "" THEN ""
  ELSE (IF Head(s) \in chars THEN "" ELSE Head(s))
         \o removeChars(Tail(s), chars)

\* first position >= p of s that holds no whitespace (Len(s) + 1 at the end)
RECURSIVE SkipSpace(_, _)
SkipSpace(s, p) ==
  IF p <= Len(s) /\ IsSpace(CharAt(s, p)) THEN SkipSpace(s, p + 1) ELSE p

RECURSIVE SkipWord(_, _)
SkipWord(s, p) ==
  IF p <= Len(s) /\ IsWord(CharAt(s, p)) THEN SkipWord(s, p + 1) ELSE p

RECURSIVE SkipDigits(_, _)
SkipDigits(s, p) ==
  IF p <= Len(s) /\ IsDigit(CharAt(s, p)) THEN SkipDigits(s, p + 1) ELSE p

\* the regular expression \s+word matches at position p of s
SpaceThen(s, p, word) ==
  /\ p <= Len(s)
  /\ IsSpace(CharAt(s, p))
  /\ StartsAt(s, word, SkipSpace(s, p))

\* positions a..b of s hold only characters that "." matches
NoNewline(s, a, b) == \A k \in a..b : CharAt(s, k) \notin NewlineSet

DigitValue == [c \in DigitSet |->
                 (CHOOSE i \in 1..10 : CharAt(DigitChars, i) = c) - 1]

\* parseInt of a string of decimal digits
RECURSIVE parseInt(_)
parseInt(s) ==
  IF s = "" THEN 0
  ELSE 10 * parseInt(substring(s, 1, Len(s) - 1)) + DigitValue[CharAt(s, Len(s))]

(***************************************************************************)
(* The regular expressions of executeCSVQuery.  A match result is <<>>     *)
(* for null and the tuple of captured groups otherwise.  Each operator     *)
(* enumerates the ways the pattern can match and picks the one the         *)
(* backtracking matcher finds first: leftmost start, then greedy           *)
(* quantifiers longest first and lazy ones shortest first.                 *)
(***************************************************************************)

\* the pair of S with the largest first component, then the smallest second
GreedyThenLazy(S) ==
  CHOOSE c \in S : \A d \in S : c[1] > d[1] \/ (c[1] = d[1] /\ c[2] <= d[2])

\* /select\s+(.*?)\s+from/i at start i: <<g, p>> with the group at g..p-1
SelectCands(s, i) ==
  IF ~StartsAt(s, "select", i) THEN {}
  ELSE {c \in ((i + 7)..SkipSpace(s, i + 6)) \X ((i + 7)..Len(s)) :
          /\ c[1] <= c[2]
          /\ NoNewline(s, c[1], c[2] - 1)
          /\ SpaceThen(s, c[2], "from")}

selectMatch(s) ==
  LET starts == {i \in 1..Len(s) : SelectCands(s, i) /= {}}
  IN  IF starts = {} THEN <<>>
      ELSE LET c == GreedyThenLazy(SelectCands(s, Min(starts)))
           IN  <<substring(s, c[1], c[2] - 1)>>

\* (?:\s+order\s+by|\s+limit|$) matches at position p
WhereEnd(s, p) ==
  \/ p = Len(s) + 1
  \/ SpaceThen(s, p, "limit")
  \/ /\ SpaceThen(s, p, "order")
     /\ SpaceThen(s, SkipSpace(s, p) + 5, "by")

\* /where\s+(.+?)(?:\s+order\s+by|\s+limit|$)/i at start i
WhereCands(s, i) ==
  IF ~StartsAt(s, "where", i) THEN {}
  ELSE {c \in ((i + 6)..SkipSpace(s, i + 5)) \X ((i + 7)..(Len(s) + 1)) :
          /\ c[1] < c[2]
          /\ NoNewline(s, c[1], c[2] - 1)
          /\ WhereEnd(s, c[2])}

whereMatch(s) ==
  LET starts == {i \in 1..Len(s) : WhereCands(s, i) /= {}}
  IN  IF starts = {} THEN <<>>
      ELSE LET c == GreedyThenLazy(WhereCands(s, Min(starts)))
           IN  <<substring(s, c[1], c[2] - 1)>>

\* /(\w+)\s+like\s+['"](.+)['"]/i at start i: the closing quotes it can use
LikeCands(s, i) ==
  LET e == SkipWord(s, i)
      q == SkipSpace(s, SkipSpace(s, e) + 4)
  IN  IF /\ i <= Len(s)
         /\ IsWord(CharAt(s, i))
         /\ SpaceThen(s, e, "like")
         /\ q > SkipSpace(s, e) + 4
         /\ q <= Len(s)
         /\ CharAt(s, q) \in QuoteSet
      THEN {r \in (q + 2)..Len(s) :
              CharAt(s, r) \in QuoteSet /\ NoNewline(s, q + 1, r - 1)}
      ELSE {}

likeMatch(s) ==
  LET starts == {i \in 1..Len(s) : LikeCands(s, i) /= {}}
  IN  IF starts = {} THEN <<>>
      ELSE LET i == Min(starts)
               e == SkipWord(s, i)
               q == SkipSpace(s, SkipSpace(s, e) + 4)
               r == Max(LikeCands(s, i))
           IN  <<substring(s, i, e - 1), substring(s, q + 1, r - 1)>>

\* /order\s+by\s+(\w+)(?:\s+(asc|desc))?/i at start i; direction "" is undefined
OrderStart(s, i) ==
  /\ StartsAt(s, "order", i)
  /\ SpaceThen(s, i + 5, "by")
  /\ LET b == SkipSpace(s, i + 5) + 2
     IN  /\ SkipSpace(s, b) > b
         /\ SkipWord(s, SkipSpace(s, b)) > SkipSpace(s, b)

orderMatch(s) ==
  LET starts == {i \in 1..Len(s) : OrderStart(s, i)}
  IN  IF starts = {} THEN <<>>
      ELSE LET w == SkipSpace(s, SkipSpace(s, Min(starts) + 5) + 2)
               e == SkipWord(s, w)
           IN  <<substring(s, w, e - 1),
                 IF SpaceThen(s, e, "asc") THEN "asc"
                 ELSE IF SpaceThen(s, e, "desc") THEN "desc" ELSE "">>

\* /limit\s+(\d+)/i at start i
LimitStart(s, i) ==
  /\ StartsAt(s, "limit", i)
  /\ SkipSpace(s, i + 5) > i + 5
  /\ SkipDigits(s, SkipSpace(s, i + 5)) > SkipSpace(s, i + 5)

limitMatch(s) ==
  LET starts == {i \in 1..Len(s) : LimitStart(s, i)}
  IN  IF starts = {} THEN <<>>
      ELSE LET d == SkipSpace(s, Min(starts) + 5)
           IN  <<substring(s, d, SkipDigits(s, d) - 1)>>

(***************************************************************************)
(* Number parsing and string comparison used by the ORDER BY comparator.   *)
(***************************************************************************)

\* a parsed number: NaN, or num = the value * 10^FracDigits
NaN == [nan |-> TRUE, num |-> 0]

Number(n) == [nan |-> FALSE, num |-> n]

isNaN(x) == x.nan

\* number of fraction digits kept
FracDigits == 2

RECURSIVE Pow10(_)
Pow10(n) == IF n = 0 THEN 1 ELSE 10 * Pow10(n - 1)

\* parseFloat for the decimal literals [+-]digits[.digits] with at most
\* FracDigits fraction digits, trailing text ignored; NaN when no digit is found
parseFloat(str) ==
  LET s    == trimStart(str)
      neg  == s /= "" /\ Head(s) = "-"
      a    == IF s /= "" /\ Head(s) \in {"-", "+"} THEN 2 ELSE 1
      b    == SkipDigits(s, a)
      dot  == b <= Len(s) /\ CharAt(s, b) = "."
      c    == IF dot THEN SkipDigits(s, b + 1) ELSE b
      frac == IF dot THEN substring(s, b + 1, c - 1) ELSE ""
      kept == substring(frac, 1, FracDigits)
      mag  == parseInt(substring(s, a, b - 1)) * Pow10(FracDigits)
                + parseInt(kept) * Pow10(FracDigits - Len(kept))
  IN  IF b = a /\ frac = "" THEN NaN
      ELSE IF neg THEN Number(0 - mag) ELSE Number(mag)

\* collation order of the characters (punctuation, digits, letters); letters
\* differ by case only at the last level, lower case first
CollationChars == " _-,;:!?.'\"()@*/&#%+<=>$0123456789abcdefghijklmnopqrstuvwxyz"

CollationRank(c) ==
  LET l == IF c \in UpperSet THEN LowerOf[c] ELSE c
      S == {i \in 1..Len(CollationChars) : CharAt(CollationChars, i) = l}
  IN  IF S = {} THEN 0 ELSE Min(S)

RECURSIVE ComparePrimary(_, _)
ComparePrimary(a, b) ==
  IF a = "" /\ b = "" THEN 0
  ELSE IF a = "" THEN -1
  ELSE IF b = "" THEN 1
  ELSE IF CollationRank(Head(a)) < CollationRank(Head(b)) THEN -1
  ELSE IF CollationRank(Head(a)) > CollationRank(Head(b)) THEN 1
  ELSE ComparePrimary(Tail(a), Tail(b))

RECURSIVE CompareCase(_, _)
CompareCase(a, b) ==
  IF a = "" \/ b = "" THEN 0
  ELSE IF Head(a) \in LowerSet /\ Head(b) \in UpperSet THEN -1
  ELSE IF Head(a) \in UpperSet /\ Head(b) \in LowerSet THEN 1
  ELSE CompareCase(Tail(a), Tail(b))

localeCompare(a, b) ==
  IF ComparePrimary(a, b) /= 0 THEN ComparePrimary(a, b) ELSE CompareCase(a, b)

(***************************************************************************)
(* executeCSVQuery, client side (csvUtils).                                *)
(***************************************************************************)

\* data.headers.findIndex(h => h.toLowerCase() === col.toLowerCase())
findIndex(headers, col) ==
  LET S == {i \in 1..Len(headers) : toLowerCase(headers[i]) = toLowerCase(col)}
  IN  IF S = {} THEN -1 ELSE Min(S) - 1

\* row[i] || ''
cellOr(row, i) == IF (i + 1) \in DOMAIN row THEN row[i + 1] ELSE ""

mapTrim(parts) == [k \in 1..Len(parts) |-> trim(parts[k])]

\* columnIndices that skips an unresolved name instead of falling back to 0
columnIndices_dropUnresolved(normalizedQuery, headers) ==
  LET m == selectMatch(normalizedQuery)
  IN  IF m /= <<>> /\ trim(m[1]) /= "*"
      THEN LET columns == SelectSeq(mapTrim(split(m[1], ",")),
                                    LAMBDA col : findIndex(headers, col) >= 0)
           IN  [k \in 1..Len(columns) |-> findIndex(headers, columns[k])]
      ELSE [i \in 1..Len(headers) |-> i - 1]

\* columnIndices without the test for "*": the wildcard is looked up as a name
columnIndices_starAsName(normalizedQuery, headers) ==
  LET m == selectMatch(normalizedQuery)
  IN  IF m /= <<>>
      THEN LET columns == mapTrim(split(m[1], ","))
           IN  [k \in 1..Len(columns) |->
                  LET index == findIndex(headers, columns[k])
                  IN  IF index >= 0 THEN index ELSE 0]
      ELSE [i \in 1..Len(headers) |-> i - 1]

\* the SELECT column list: the indices of the requested columns
columnIndices(normalizedQuery, headers) ==
  LET m == selectMatch(normalizedQuery)
  IN  IF m /= <<>> /\ trim(m[1]) /= "*"
      THEN LET columns == mapTrim(split(m[1], ","))
           IN  [k \in 1..Len(columns) |->
                  LET index == findIndex(headers, columns[k])
                  IN  IF index >= 0 THEN index ELSE 0]
      ELSE [i \in 1..Len(headers) |-> i - 1]

\* selectedColumns that names the columns by the tokens of the query text
selectedColumns_queryTokens(normalizedQuery, headers) ==
  LET m == selectMatch(normalizedQuery)
  IN  IF m /= <<>> /\ trim(m[1]) /= "*"
      THEN mapTrim(split(m[1], ","))
      ELSE headers

\* selectedColumns that names every header whatever the SELECT list
selectedColumns_allHeaders(normalizedQuery, headers) == headers

selectedColumns(normalizedQuery, headers) ==
  LET m == selectMatch(normalizedQuery)
      ci == columnIndices(normalizedQuery, headers)
  IN  IF m /= <<>> /\ trim(m[1]) /= "*"
      THEN [k \in 1..Len(ci) |-> headers[ci[k] + 1]]
      ELSE headers

\* the = branch of the WHERE filter: [column, value] = whereClause.split('=')
equalsKeeps(whereClause, headers, row) ==
  LET parts == mapTrim(split(whereClause, "="))
      column == parts[1]
      value == parts[2]
      columnIndex == findIndex(headers, column)
  IN  IF columnIndex >= 0
      THEN LET cleanValue == toLowerCase(removeChars(value, QuoteSet))
               cellValue == toLowerCase(cellOr(row, columnIndex))
           IN  includes(cellValue, cleanValue)
      ELSE TRUE

\* the like branch of the WHERE filter
likeKeeps(whereClause, headers, row) ==
  LET lm == likeMatch(whereClause)
  IN  IF lm /= <<>>
      THEN LET columnIndex == findIndex(headers, lm[1])
           IN  IF columnIndex >= 0
               THEN LET searchPattern == toLowerCase(removeChars(lm[2], {"%"}))
                        cellValue == toLowerCase(cellOr(row, columnIndex))
                    IN  includes(cellValue, searchPattern)
               ELSE TRUE
      ELSE TRUE

\* whereKeeps that rejects the row when no branch decides
whereKeeps_rejectUnknown(whereClause, headers, row) ==
  IF includes(whereClause, "=") THEN equalsKeeps(whereClause, headers, row)
  ELSE IF includes(whereClause, "like")
       THEN likeMatch(whereClause) /= <<>> /\ likeKeeps(whereClause, headers, row)
  ELSE FALSE

\* the callback of data.rows.filter
whereKeeps(whereClause, headers, row) ==
  IF includes(whereClause, "=") THEN equalsKeeps(whereClause, headers, row)
  ELSE IF includes(whereClause, "like") THEN likeKeeps(whereClause, headers, row)
  ELSE TRUE

\* the comparator of filteredRows.sort
\* compareRows that compares every pair as strings
compareRows_stringsOnly(a, b, columnIndex, direction) ==
  LET aVal == cellOr(a, columnIndex)
      bVal == cellOr(b, columnIndex)
  IN  IF direction = "desc" THEN 0 - localeCompare(aVal, bVal)
      ELSE localeCompare(aVal, bVal)

compareRows(a, b, columnIndex, direction) ==
  LET aVal == cellOr(a, columnIndex)
      bVal == cellOr(b, columnIndex)
      aNum == parseFloat(aVal)
      bNum == parseFloat(bVal)
  IN  IF ~isNaN(aNum) /\ ~isNaN(bNum)
      THEN (IF direction = "desc" THEN bNum.num - aNum.num ELSE aNum.num - bNum.num)
      ELSE (IF direction = "desc" THEN 0 - localeCompare(aVal, bVal)
            ELSE localeCompare(aVal, bVal))

\* Array.prototype.sort is stable: insert row after the last element not
\* greater than it
insertSorted(sorted, row, columnIndex, direction) ==
  LET after == {k \in 1..Len(sorted) :
                  compareRows(row, sorted[k], columnIndex, direction) < 0}
      pos == IF after = {} THEN Len(sorted) + 1 ELSE Min(after)
  IN  SubSeq(sorted, 1, pos - 1) \o <<row>> \o SubSeq(sorted, pos, Len(sorted))

RECURSIVE sort(_, _, _)
sort(rows, columnIndex, direction) ==
  IF rows = <<>> THEN <<>>
  ELSE insertSorted(sort(SubSeq(rows, 1, Len(rows) - 1), columnIndex, direction),
                    rows[Len(rows)], columnIndex, direction)

\* filteredRows after the WHERE step
filterRows(normalizedQuery, data) ==
  LET wm == whereMatch(normalizedQuery)
  IN  IF wm /= <<>>
      THEN SelectSeq(data.rows, LAMBDA row : whereKeeps(wm[1], data.headers, row))
      ELSE data.rows

\* orderRows that sorts by the first column when the key is no header
orderRows_fallbackToFirst(normalizedQuery, headers, filteredRows) ==
  LET om == orderMatch(normalizedQuery)
  IN  IF om /= <<>>
      THEN sort(filteredRows,
                IF findIndex(headers, om[1]) >= 0
                THEN findIndex(headers, om[1]) ELSE 0, om[2])
      ELSE filteredRows

\* the ORDER BY step sorts filteredRows in place
orderRows(normalizedQuery, headers, filteredRows) ==
  LET om == orderMatch(normalizedQuery)
  IN  IF om /= <<>> /\ findIndex(headers, om[1]) >= 0
      THEN sort(filteredRows, findIndex(headers, om[1]), om[2])
      ELSE filteredRows

\* rows.slice(0, n)
slice(rows, n) == SubSeq(rows, 1, IF n < Len(rows) THEN n ELSE Len(rows))

\* limitRows that tests the parsed limit for truthiness
limitRows_zeroIgnored(normalizedQuery, filteredRows) ==
  LET lm == limitMatch(normalizedQuery)
  IN  IF lm /= <<>> /\ parseInt(lm[1]) /= 0
      THEN slice(filteredRows, parseInt(lm[1]))
      ELSE filteredRows

\* filteredRows.slice(0, limit)
limitRows(normalizedQuery, filteredRows) ==
  LET lm == limitMatch(normalizedQuery)
  IN  IF lm /= <<>>
      THEN slice(filteredRows, parseInt(lm[1]))
      ELSE filteredRows

\* the object the engine returns: rowCount is rows.length
QueryResult(columns, rows) ==
  [columns |-> columns, rows |-> rows, rowCount |-> Len(rows)]

projectRows(rows, indices) ==
  [r \in 1..Len(rows) |-> [k \in 1..Len(indices) |-> cellOr(rows[r], indices[k])]]

\* the fallback result with an empty row set
UnsupportedResult_noRows ==
  [columns |-> <<"message">>, rows |-> <<>>, rowCount |-> 0]

UnsupportedResult ==
  [columns |-> <<"message">>,
   rows |-> <<<<"Query type not supported. Please use SELECT statements.">>>>,
   rowCount |-> 1]

\* executeCSVQuery that cuts to the limit before it sorts
executeCSVQuery_limitFirst(query, data) ==
  LET normalizedQuery == trim(toLowerCase(query))
  IN  IF includes(normalizedQuery, "select")
      THEN LET resultRows ==
                 projectRows(
                   orderRows(normalizedQuery, data.headers,
                     limitRows(normalizedQuery,
                       filterRows(normalizedQuery, data))),
                   columnIndices(normalizedQuery, data.headers))
           IN  QueryResult(selectedColumns(normalizedQuery, data.headers),
                           resultRows)
      ELSE UnsupportedResult

\* the QueryResult executeCSVQuery returns (executionTime left out: it is a
\* clock reading no decision uses)
executeCSVQuery(query, data) ==
  LET normalizedQuery == trim(toLowerCase(query))
  IN  IF includes(normalizedQuery, "select")
      THEN LET resultRows ==
                 projectRows(
                   limitRows(normalizedQuery,
                     orderRows(normalizedQuery, data.headers,
                       filterRows(normalizedQuery, data))),
                   columnIndices(normalizedQuery, data.headers))
           IN  QueryResult(selectedColumns(normalizedQuery, data.headers),
                           resultRows)
      ELSE UnsupportedResult

\* [column, value] = whereClause.split('=') leaves value undefined when the
\* split has one part; value.replace(...) on a resolved column is then a
\* TypeError
equalsThrows(whereClause, headers) ==
  LET parts == mapTrim(split(whereClause, "="))
  IN  findIndex(headers, parts[1]) >= 0 /\ Len(parts) < 2

\* whereThrows without the includes('=') test in front of the destructuring
whereThrows_noEqualsTest(whereClause, headers) == equalsThrows(whereClause, headers)

\* the filter callback raises an exception
whereThrows(whereClause, headers) ==
  includes(whereClause, "=") /\ equalsThrows(whereClause, headers)

\* the call raises an exception instead of returning a QueryResult: the
\* filter callback is the one place that calls a method on a destructured
\* value; it runs once per row
executeThrows(query, data) ==
  LET normalizedQuery == trim(toLowerCase(query))
      wm == whereMatch(normalizedQuery)
  IN  /\ includes(normalizedQuery, "select")
      /\ wm /= <<>>
      /\ data.rows /= <<>>
      /\ whereThrows(wm[1], data.headers)

\* data.rows after the call: without a WHERE match filteredRows is data.rows
\* itself, so the in-place sort reorders the caller's array
rowsAfterQuery(query, data) ==
  LET normalizedQuery == trim(toLowerCase(query))
  IN  IF includes(normalizedQuery, "select") /\ whereMatch(normalizedQuery) = <<>>
      THEN orderRows(normalizedQuery, data.headers, data.rows)
      ELSE data.rows

(***************************************************************************)
(* executeCSVQuery, server side (execute-sql): the same SELECT, WHERE =    *)
(* and LIMIT steps, no LIKE branch and no ORDER BY step.                   *)
(***************************************************************************)

\* row[columnIndex]?.toLowerCase().includes(cleanValue.toLowerCase())
serverWhereKeeps(whereClause, headers, row) ==
  IF includes(whereClause, "=")
  THEN LET parts == mapTrim(split(whereClause, "="))
           columnIndex == findIndex(headers, parts[1])
       IN  IF columnIndex >= 0
           THEN LET cleanValue == removeChars(parts[2], QuoteSet)
                IN  /\ (columnIndex + 1) \in DOMAIN row
                    /\ includes(toLowerCase(row[columnIndex + 1]),
                                toLowerCase(cleanValue))
           ELSE TRUE
  ELSE TRUE

serverFilterRows(normalizedQuery, data) ==
  LET wm == whereMatch(normalizedQuery)
  IN  IF wm /= <<>>
      THEN SelectSeq(data.rows,
                     LAMBDA row : serverWhereKeeps(wm[1], data.headers, row))
      ELSE data.rows

serverExecuteCSVQuery(query, data) ==
  LET normalizedQuery == trim(toLowerCase(query))
  IN  IF includes(normalizedQuery, "select")
      THEN LET resultRows ==
                 projectRows(
                   limitRows(normalizedQuery,
                             serverFilterRows(normalizedQuery, data)),
                   columnIndices(normalizedQuery, data.headers))
           IN  QueryResult(selectedColumns(normalizedQuery, data.headers),
                           resultRows)
      ELSE UnsupportedResult

\* the server copy of the filter callback destructures the same way
serverExecuteThrows(query, data) ==
  LET normalizedQuery == trim(toLowerCase(query))
      wm == whereMatch(normalizedQuery)
  IN  /\ includes(normalizedQuery, "select")
      /\ wm /= <<>>
      /\ data.rows /= <<>>
      /\ whereThrows(wm[1], data.headers)

(***************************************************************************)
(* The server loader: parseCSV, parseCSVRow, parseCSVLine.                 *)
(***************************************************************************)

\* isEscapedQuote that never sees a doubled quote
isEscapedQuote_never(line, i, inQuotes) == FALSE

\* inQuotes && i + 1 < line.length && line[i + 1] === '"', i 1-based here
isEscapedQuote(line, i, inQuotes) ==
  inQuotes /\ i + 1 <= Len(line) /\ CharAt(line, i + 1) = "\""

\* endsField that takes a comma inside quotes for a separator too
endsField_anyComma(char, inQuotes) == char = ","

\* char === ',' && !inQuotes
endsField(char, inQuotes) == char = "," /\ ~inQuotes

\* one pass of the for loop of parseCSVLine over the loop variables, i
\* 1-based
parseCSVLineStep(line, v) ==
  LET char == CharAt(line, v.i)
  IN  IF char = "\""
      THEN IF isEscapedQuote(line, v.i, v.inQuotes)
           THEN [v EXCEPT !.i = v.i + 2, !.current = v.current \o "\""]
           ELSE [v EXCEPT !.i = v.i + 1, !.inQuotes = ~v.inQuotes]
      ELSE IF endsField(char, v.inQuotes)
           THEN [v EXCEPT !.i = v.i + 1, !.current = "",
                          !.result = Append(v.result, trim(v.current))]
           ELSE [v EXCEPT !.i = v.i + 1, !.current = v.current \o char]

\* the for loop of parseCSVLine from the loop variables v on, and the push
\* after it
RECURSIVE parseCSVLineFrom(_, _)
parseCSVLineFrom(line, v) ==
  IF v.i > Len(line) THEN Append(v.result, trim(v.current))
  ELSE parseCSVLineFrom(line, parseCSVLineStep(line, v))

parseCSVLine(line) ==
  parseCSVLineFrom(line, [i |-> 1, current |-> "", inQuotes |-> FALSE,
                          result |-> <<>>])

countQuotes(line) == Cardinality({i \in 1..Len(line) : CharAt(line, i) = "\""})

\* the while loop of parseCSVRow; lineIndex is 0-based
RECURSIVE joinLines(_, _, _, _)
joinLines(lines, lineIndex, currentLine, quoteCount) ==
  IF quoteCount % 2 /= 0 /\ lineIndex + 1 < Len(lines)
  THEN joinLines(lines, lineIndex + 1,
                 currentLine \o "\n" \o lines[lineIndex + 2],
                 quoteCount + countQuotes(lines[lineIndex + 2]))
  ELSE [row |-> parseCSVLine(currentLine), nextIndex |-> lineIndex + 1]

\* parseCSVRow that never reads past its first physical line
parseCSVRow_singleLine(lines, startIndex) ==
  [row |-> parseCSVLine(lines[startIndex + 1]), nextIndex |-> startIndex + 1]

parseCSVRow(lines, startIndex) ==
  joinLines(lines, startIndex, lines[startIndex + 1],
            countQuotes(lines[startIndex + 1]))

\* while (row.length < headers.length) row.push(''); row.slice(0, headers.length)
normalizeRow(row, width) ==
  [k \in 1..width |-> IF k <= Len(row) THEN row[k] ELSE ""]

\* isBlankLine that knows the empty line only
isBlankLine_onlyEmpty(line) == line = ""

\* lines[i].trim() === ''
isBlankLine(line) == trim(line) = ""

\* the while loop of parseCSV; i is 0-based
RECURSIVE parseRows(_, _, _, _)
parseRows(lines, i, headers, rows) ==
  IF i >= Len(lines) THEN rows
  ELSE IF isBlankLine(lines[i + 1]) THEN parseRows(lines, i + 1, headers, rows)
  ELSE LET r == parseCSVRow(lines, i)
       IN  parseRows(lines, r.nextIndex, headers,
                     IF Len(r.row) > 0
                     THEN Append(rows, normalizeRow(r.row, Len(headers)))
                     ELSE rows)

parseCSV(csvText) ==
  LET lines == split(csvText, "\n")
  IN  IF Len(lines) = 0 THEN [headers |-> <<>>, rows |-> <<>>]
      ELSE LET headers == parseCSVLine(lines[1])
           IN  [headers |-> headers, rows |-> parseRows(lines, 1, headers, <<>>)]

(***************************************************************************)
(* The client loader: the complete callback of loadCSVData, applied to     *)
(* results.data, the rows Papa.parse hands over.                           *)
(***************************************************************************)

\* row.some(cell => cell && cell.trim() !== '')
someCell(row) == \E k \in 1..Len(row) : row[k] /= "" /\ trim(row[k]) /= ""

\* normalizedRow without the padding loop
normalizedRow_noPadding(row, width) ==
  [k \in 1..(IF Len(row) < width THEN Len(row) ELSE width) |-> trim(row[k])]

\* pad to headers.length, slice(0, headers.length), trim every cell
normalizedRow(row, width) ==
  [k \in 1..width |-> IF k <= Len(row) THEN trim(row[k]) ELSE ""]

Rejected == [rejected |-> TRUE]

\* Rejected when data.length === 0, otherwise the resolved CSVData
loadCSVData(data) ==
  IF Len(data) = 0 THEN Rejected
  ELSE LET headers == mapTrim(data[1])
           kept == SelectSeq(Tail(data), someCell)
       IN  [headers |-> headers,
            rows |-> [r \in 1..Len(kept) |-> normalizedRow(kept[r], Len(headers))]]

(***************************************************************************)
(* Inputs.  A query is its text together with the parts the text was       *)
(* built from; the engine reads only the text.                             *)
(***************************************************************************)

\* largest n of the LIMIT n clauses tried
MaxLimit == 3

RECURSIVE NatToStr(_)
NatToStr(n) ==
  IF n < 10 THEN CharAt(DigitChars, n + 1)
  ELSE NatToStr(n \div 10) \o CharAt(DigitChars, (n % 10) + 1)

NoLimit == -1

LimitText(n) == IF n = NoLimit THEN "" ELSE " LIMIT " \o NatToStr(n)

Query(kind, text, cols, col, val, dir, limit) ==
  [kind |-> kind, text |-> text, cols |-> cols, col |-> col, val |-> val,
   dir |-> dir, limit |-> limit]

OtherQueries ==
  {Query("other", t, <<>>, "", "", "", NoLimit) :
     t \in {"", "DELETE FROM t", "SeLEc * FROM t", "show tables LIMIT 1"}}

StarQueries ==
  {Query("star", t, <<>>, "", "", "", NoLimit) :
     t \in {"SELECT * FROM t", "  select  *  from t "}}

ColumnLists ==
  {<<"nonexistent_col">>, <<"Value">>, <<"ID">>, <<"id", "Val">>,
   <<"VALUE", "nope", "Industry_name_NZSIOC">>}

RECURSIVE JoinComma(_)
JoinComma(cols) ==
  IF Len(cols) = 1 THEN cols[1] ELSE cols[1] \o ", " \o JoinComma(Tail(cols))

ProjectQueries ==
  {Query("project", "SELECT " \o JoinComma(cs) \o " FROM t", cs, "", "", "", NoLimit) :
     cs \in ColumnLists}

WhereColumns == {"Industry_name_NZSIOC", "value", "ID", "nope"}

EqualsValues == {"agriculture", "MINING", "a=b", "2", "zz", "b limit"}

EqualsQueries ==
  {Query("equals", "SELECT * FROM t WHERE " \o c \o " = '" \o v \o "'",
         <<>>, c, v, "", NoLimit) : c \in WhereColumns, v \in EqualsValues}
  \cup
  {Query("equals", "select * from t where Value=\"3\" limit 5", <<>>, "Value", "3", "", 5),
   Query("equals", "SELECT * FROM t WHERE id = q", <<>>, "id", "q", "", NoLimit)}

LikePatterns == {"%Agriculture%", "min%", "%", "%=b%", "%y limit%"}

LikeQueries ==
  {Query("like", "SELECT * FROM t WHERE " \o c \o " LIKE '" \o v \o "'",
         <<>>, c, v, "", NoLimit) : c \in WhereColumns \ {"value"}, v \in LikePatterns}

\* the query generateSimpleSQL returns for "top" and "industry"
TopIndustriesSQL ==
  "SELECT Industry_name_NZSIOC, Value FROM survey_data WHERE Variable_name = 'Total income' ORDER BY CAST(Value AS DECIMAL) DESC LIMIT 10"

OrderQueries ==
  {Query("order", "SELECT * FROM t ORDER BY " \o c \o d, <<>>, c, "", d, NoLimit) :
     c \in {"Value", "id", "nope", "val"}, d \in {"", " ASC", " DESC"}}
  \cup
  {Query("whereorder",
         "SELECT * FROM t WHERE Value = '3' ORDER BY Value" \o d \o LimitText(n),
         <<>>, "Value", "3", d, n) : d \in {"", " DESC"}, n \in {NoLimit, 1}}
  \cup
  {Query("order", "SELECT * FROM t ORDER BY CAST(Value AS DECIMAL) DESC",
         <<>>, "CAST", "", " DESC", NoLimit),
   Query("template", TopIndustriesSQL, <<"Industry_name_NZSIOC", "Value">>,
         "CAST", "", " DESC", 10)}

LimitQueries ==
  {Query("limit", "SELECT * FROM t" \o LimitText(n), <<>>, "", "", "", n) :
     n \in 0..MaxLimit}

WhereLimitQueries ==
  {Query("wherelimit",
         "SELECT * FROM t WHERE Industry_name_NZSIOC = 'i'" \o LimitText(n),
         <<>>, "Industry_name_NZSIOC", "i", "", n) : n \in {NoLimit} \cup 0..MaxLimit}

\* WHERE clauses with neither "=" nor a like form the engine can read
OpaqueQueries ==
  {Query("opaque", "SELECT * FROM t WHERE " \o w, <<>>, "", "", "", NoLimit) :
     w \in {"Value > 3", "id IS NOT NULL", "id LIKE abc", "Value LIKE '"}}

\* WHERE, ORDER BY Value and LIMIT together, with a SELECT list that leaves
\* out the ORDER BY column or the WHERE column
ClauseQueries ==
  {Query("clauses",
         "SELECT " \o c \o " FROM t WHERE Industry_name_NZSIOC = 'i' ORDER BY Value"
           \o d \o LimitText(n),
         <<c>>, "Industry_name_NZSIOC", "i", d, n) :
     c \in {"Industry_name_NZSIOC", "Value"}, d \in {"", " DESC"}, n \in {1, 2}}

\* malformed SELECT lists and clause fragments
FragmentQueries ==
  {Query("fragment", t, <<>>, "", "", "", NoLimit) :
     t \in {"SELECT FROM t", "SELECT a,,Value FROM t", "select * from t where",
            "SELECT * FROM t WHERE Value", "select * from t where =",
            "select * from t order by", "select * from t limit",
            "select ,id, from t where = order by limit x"}}

Queries ==
  OtherQueries \cup StarQueries \cup ProjectQueries \cup EqualsQueries
    \cup LikeQueries \cup OrderQueries \cup LimitQueries \cup OpaqueQueries
    \cup WhereLimitQueries \cup FragmentQueries \cup ClauseQueries

\* the rows Papa.parse hands to the complete callback; <<>> for an empty file
PapaResults ==
  {<<>>,
   <<<<"Industry_name_NZSIOC", "Value">>,
     <<"Agriculture, Forestry and Fishing", "10">>,
     <<"Mining", "2">>,
     <<"a=b", "33">>>>,
   <<<<" Val ", "Id", "id">>,
     <<"2", "b", "p">>,
     <<"1">>,
     <<" ", "">>,
     <<" abc", "c y limit", "q", "extra">>>>,
   <<<<"id", "Value">>,
     <<"x", "10">>,
     <<"Y", "-2.5">>,
     <<"z", "10.0">>,
     <<"w", "2">>>>}

\* field values a CSV writer has to quote
FieldValues == {"a\"b", "\"", "p\nq", "a\n\nb\"", "c,d", " e "}

RECURSIVE DoubleQuotes(_)
DoubleQuotes(v) ==
  IF v = "" THEN ""
  ELSE (IF CharAt(v, 1) = "\"" THEN "\"\"" ELSE CharAt(v, 1))
         \o DoubleQuotes(substring(v, 2, Len(v)))

\* a field as a CSV writer emits it: in quotes, every quote doubled
QuotedField(v) == "\"" \o DoubleQuotes(v) \o "\""

\* a file of a header line, one row of two quoted fields and one plain row
QuotedRowText(f1, f2) ==
  "h1,h2\n" \o QuotedField(f1) \o "," \o QuotedField(f2) \o "\nz,9"

\* a file whose last row opens a quote and never closes it
UnterminatedText == "h1,h2\n1,2\n\"open\nrest,3"

\* a file whose header line has commas and spaces inside quotes
QuotedHeaderText == "\"Last, First\", Age ,\" City \",\nx,1,y,w"

\* what may stand between two rows: nothing, an empty line, a line of
\* white space
BlankLines == {"", "\n", " \t\n", "\r\n\n"}

\* a file of a header and two rows with blank lines around them
BlankLineText(b1, b2, b3) ==
  "h1,h2\n" \o b1 \o "a,1\n" \o b2 \o "b,2\n" \o b3

\* CSV files with quoted fields or blank lines
QuotedTexts ==
  {QuotedRowText(f1, f2) : f1, f2 \in FieldValues}
    \cup {UnterminatedText, QuotedHeaderText}
    \cup {BlankLineText(b1, b2, b3) : b1, b2, b3 \in BlankLines}

\* the sample file
SampleCsvText ==
  "Industry_name_NZSIOC,Value\n\"Agriculture, Forestry and Fishing\",10\nMining,2\na=b,33\n"

\* the text the server reads from its CSV file
CsvTexts ==
  {"",
   SampleCsvText,
   "Val,Id,id\n2,b\n\n1,a,q,extra\n  \n\"x\"\"y\",\"p\nq\", z ",
   "Value"}

(***************************************************************************)
(* State.  csvData is the component's csvData state (NoData for null);     *)
(* loadedData remembers the CSVData as loadCSVData resolved it; call is    *)
(* the engine or loader invocation in progress, Idle between invocations.  *)
(***************************************************************************)

NoData == [null |-> TRUE]

Idle == [op |-> "idle"]

\* no executeQuery invocation yet
NotStarted == [pc |-> "idle"]

Init ==
  /\ csvData = NoData
  /\ loadedData = NoData
  /\ call = Idle
  /\ useLocalCSV = FALSE
  /\ isExecuting = FALSE
  /\ error = ""
  /\ queryResult = NoData
  /\ exec = NotStarted
  /\ generatedSQL = ""
  /\ isGenerating = FALSE
  /\ gen = NotStarted

\* component mount: loadCSVDataFromFile awaits loadCSVData and, when it
\* resolves, stores the CSVData; a rejection leaves csvData null
LoadCSVDataFromFile(data) ==
  /\ call = Idle
  /\ csvData = NoData
  /\ LET loaded == loadCSVData(data)
     IN  /\ csvData' = IF loaded = Rejected THEN NoData ELSE loaded
         /\ loadedData' = csvData'
         /\ call' = [op |-> "load", input |-> data,
                     failed |-> (loaded = Rejected)]
  /\ UNCHANGED uiVars

\* executeQuery's local path: executeCSVQuery(sqlQuery, csvData)
ExecuteLocal(q) ==
  /\ call = Idle
  /\ csvData /= NoData
  /\ call' = [op |-> "local", query |-> q, data |-> csvData,
              threw |-> executeThrows(q.text, csvData),
              result |-> executeCSVQuery(q.text, csvData)]
  /\ csvData' = [csvData EXCEPT !.rows = rowsAfterQuery(q.text, csvData)]
  /\ UNCHANGED <<loadedData, uiVars>>

\* the two paths the execute-sql handler reads
csvPath == "./sample_data.csv"
fullDataPath == "./annual-enterprise-survey-2024-financial-year-provisional.csv"

\* a file of the function's directory, and a path Deno.readTextFile rejects
File(text) == [exists |-> TRUE, text |-> text]
NoFile == [exists |-> FALSE]

\* the function's directory
Directory(sample, fullData) ==
  [path \in {csvPath, fullDataPath} |->
     IF path = csvPath THEN sample ELSE fullData]

\* the directories the handler runs in besides the deployed one
Directories ==
  {Directory(sample, fullData) :
     sample \in {NoFile, File(SampleCsvText)},
     fullData \in {NoFile, File(SampleCsvText), File("h1,h2\na,1")}}

\* the message of the 400 response when neither path can be read
CouldNotReadMessage == "Could not read CSV file: No such file or directory"

\* readCsvText that gives up after the first path
readCsvText_sampleOnly(dir) ==
  IF dir[csvPath].exists
  THEN [reads |-> <<csvPath>>, ok |-> TRUE, csvText |-> dir[csvPath].text]
  ELSE [reads |-> <<csvPath>>, ok |-> FALSE, csvText |-> ""]

\* the nested try blocks of the handler: the paths read, in order, and the
\* text obtained
readCsvText(dir) ==
  IF dir[csvPath].exists
  THEN [reads |-> <<csvPath>>, ok |-> TRUE, csvText |-> dir[csvPath].text]
  ELSE IF dir[fullDataPath].exists
  THEN [reads |-> <<csvPath, fullDataPath>>, ok |-> TRUE,
        csvText |-> dir[fullDataPath].text]
  ELSE [reads |-> <<csvPath, fullDataPath>>, ok |-> FALSE, csvText |-> ""]

\* the execute-sql handler after the CSV text is read: parseCSV(csvText),
\* then executeCSVQuery; everything thrown is answered with status 400
ServedCall(dir, read, q, parsed) ==
  LET threw == serverExecuteThrows(q.text, parsed)
  IN  [op |-> "server", query |-> q, csvText |-> read.csvText,
       data |-> parsed, failed |-> FALSE, threw |-> threw,
       result |-> serverExecuteCSVQuery(q.text, parsed),
       dir |-> dir, reads |-> read.reads,
       status |-> IF threw THEN 400 ELSE 200]

\* the execute-sql handler: read the CSV text, parse it, run the query
ServeExecuteSql(dir, q) ==
  /\ call = Idle
  /\ LET read == readCsvText(dir)
     IN  call' = IF read.ok
                 THEN ServedCall(dir, read, q, parseCSV(read.csvText))
                 ELSE [op |-> "serverNoCsv", query |-> q, dir |-> dir,
                       reads |-> read.reads, status |-> 400,
                       error |-> CouldNotReadMessage]
  /\ UNCHANGED <<csvData, loadedData, uiVars>>

\* the invocation returns to its caller
Return ==
  /\ call /= Idle
  /\ call' = Idle
  /\ UNCHANGED <<csvData, loadedData, uiVars>>

Next ==
  \/ \E data \in PapaResults : LoadCSVDataFromFile(data)
  \/ \E q \in Queries : ExecuteLocal(q)
  \/ \E csvText \in CsvTexts, q \in Queries :
       ServeExecuteSql(Directory(File(csvText), File(SampleCsvText)), q)
  \/ \E csvText \in QuotedTexts, q \in StarQueries :
       ServeExecuteSql(Directory(File(csvText), NoFile), q)
  \/ \E dir \in Directories, q \in StarQueries : ServeExecuteSql(dir, q)
  \/ Return

Spec == Init /\ [][Next]_vars

(***************************************************************************)
(* executeQuery.  The handler runs to its first await in one step; the     *)
(* rest runs when the fetch settles.  exec is the invocation: its position *)
(* (pc), what it read when it started and which paths it has taken.        *)
(***************************************************************************)

\* the queries the Execute button is pressed with
UIQueries ==
  {q \in Queries :
     q.text \in {"SELECT * FROM t", "SELECT * FROM t ORDER BY Value DESC",
                 "DELETE FROM t", "SELECT * FROM t LIMIT 1"}}

\* how the fetch of execute-sql settles: a 200 response with a result, a
\* 200 response whose body has an error field, a response that is not OK
\* (the handler answers 400 on every failure), or a rejected promise
FetchOutcomes == {"data", "errorField", "notOk", "throws"}

ServerErrorMessage == "Could not read CSV file"

NetworkErrorMessage == "Failed to fetch"

NoCsvMessage == "No CSV data available for local processing"

\* the body of a 200 response as setQueryResult stores it
ServerQueryResult(q) == serverExecuteCSVQuery(q.text, parseCSV(SampleCsvText))

\* callsServer that ignores the checkbox
callsServer_always(useLocal) == TRUE

\* if (!useLocalCSV): the server is tried first
callsServer(useLocal) == ~useLocal

\* RunLocal whose failure also clears the displayed result
RunLocal_clearsResult(q, useLocal, data, outcome) ==
  /\ IF data /= NoData
     THEN /\ queryResult' = executeCSVQuery(q.text, data)
          /\ csvData' = IF csvData = data
                        THEN [data EXCEPT !.rows = rowsAfterQuery(q.text, data)]
                        ELSE csvData
          /\ error' = ""
     ELSE /\ error' = NoCsvMessage
          /\ queryResult' = NoData
          /\ UNCHANGED csvData
  /\ isExecuting' = FALSE
  /\ exec' = [pc |-> "done", query |-> q, useLocal |-> useLocal,
              data |-> data, loaded |-> (data /= NoData),
              outcome |-> outcome,
              serverCalls |-> IF outcome = "none" THEN 0 ELSE 1,
              localCalls |-> IF data /= NoData THEN 1 ELSE 0]

\* RunLocal without the finally block: the throw for missing CSV data
\* leaves the handler before setIsExecuting(false)
RunLocal_noFinally(q, useLocal, data, outcome) ==
  /\ IF data /= NoData
     THEN /\ queryResult' = executeCSVQuery(q.text, data)
          /\ csvData' = IF csvData = data
                        THEN [data EXCEPT !.rows = rowsAfterQuery(q.text, data)]
                        ELSE csvData
          /\ error' = ""
     ELSE /\ error' = NoCsvMessage
          /\ UNCHANGED <<queryResult, csvData>>
  /\ isExecuting' = (data = NoData)
  /\ exec' = [pc |-> "done", query |-> q, useLocal |-> useLocal,
              data |-> data, loaded |-> (data /= NoData),
              outcome |-> outcome,
              serverCalls |-> IF outcome = "none" THEN 0 ELSE 1,
              localCalls |-> IF data /= NoData THEN 1 ELSE 0]

\* the local part of the handler, through catch and finally; useLocal and
\* data are what the handler closed over when it started: the checkbox and
\* the csvData of that render (NoData for null).  The sort of the engine
\* works in place on the rows of that object, which is the component's
\* csvData unless another file has been loaded since
RunLocal(q, useLocal, data, outcome) ==
  /\ IF data /= NoData
     THEN /\ queryResult' = executeCSVQuery(q.text, data)
          /\ csvData' = IF csvData = data
                        THEN [data EXCEPT !.rows = rowsAfterQuery(q.text, data)]
                        ELSE csvData
          /\ error' = ""
     ELSE /\ error' = NoCsvMessage
          /\ UNCHANGED <<queryResult, csvData>>
  /\ isExecuting' = FALSE
  /\ exec' = [pc |-> "done", query |-> q, useLocal |-> useLocal,
              data |-> data, loaded |-> (data /= NoData),
              outcome |-> outcome,
              serverCalls |-> IF outcome = "none" THEN 0 ELSE 1,
              localCalls |-> IF data /= NoData THEN 1 ELSE 0]

\* a press of the Execute button (disabled while isExecuting)
ExecuteQuery(q) ==
  /\ ~isExecuting
  /\ call = Idle
  /\ IF callsServer(useLocalCSV)
     THEN /\ isExecuting' = TRUE
          /\ error' = ""
          /\ exec' = [pc |-> "fetch", query |-> q, useLocal |-> useLocalCSV,
                      data |-> csvData, loaded |-> (csvData /= NoData),
                      outcome |-> "none",
                      serverCalls |-> 1, localCalls |-> 0]
          /\ UNCHANGED <<queryResult, csvData>>
     ELSE RunLocal(q, useLocalCSV, csvData, "none")
  /\ UNCHANGED <<loadedData, call, useLocalCSV, genVars>>

\* the fetch settles and the handler runs to its end
FetchSettles(outcome) ==
  /\ exec.pc = "fetch"
  /\ call = Idle
  /\ CASE outcome = "data" ->
            /\ queryResult' = ServerQueryResult(exec.query)
            /\ isExecuting' = FALSE
            /\ exec' = [exec EXCEPT !.pc = "done", !.outcome = outcome]
            /\ UNCHANGED <<error, csvData>>
       [] outcome = "errorField" ->
            /\ error' = ServerErrorMessage
            /\ isExecuting' = FALSE
            /\ exec' = [exec EXCEPT !.pc = "done", !.outcome = outcome]
            /\ UNCHANGED <<queryResult, csvData>>
       [] outcome = "throws" ->
            /\ error' = NetworkErrorMessage
            /\ isExecuting' = FALSE
            /\ exec' = [exec EXCEPT !.pc = "done", !.outcome = outcome]
            /\ UNCHANGED <<queryResult, csvData>>
       [] outcome = "notOk" -> RunLocal(exec.query, exec.useLocal, exec.data, outcome)
  /\ UNCHANGED <<loadedData, call, useLocalCSV, genVars>>

\* the "Use local CSV processing" checkbox
SetUseLocalCSV(checked) ==
  /\ useLocalCSV /= checked
  /\ useLocalCSV' = checked
  /\ UNCHANGED <<csvData, loadedData, call, isExecuting, error, queryResult,
                 exec, genVars>>

NextUI ==
  \/ \E data \in PapaResults : LoadCSVDataFromFile(data)
  \/ Return
  \/ \E checked \in BOOLEAN : SetUseLocalCSV(checked)
  \/ \E q \in UIQueries : ExecuteQuery(q)
  \/ \E outcome \in FetchOutcomes : FetchSettles(outcome)

SpecUI == Init /\ [][NextUI]_vars

(***************************************************************************)
(* generateSQLQuery and generateSimpleSQL.  gen is the invocation: its     *)
(* position, the question it was called with and how its fetch settled.    *)
(***************************************************************************)

\* the rule-based generator: the first rule whose words the lower-cased
\* question contains
generateSimpleSQL(query) ==
  LET lowerQuery == toLowerCase(query)
  IN  IF includes(lowerQuery, "all") /\ includes(lowerQuery, "data")
      THEN "SELECT * FROM survey_data LIMIT 100"
      ELSE IF includes(lowerQuery, "total income")
      THEN "SELECT * FROM survey_data WHERE Variable_name = 'Total income' LIMIT 50"
      ELSE IF includes(lowerQuery, "agriculture") \/ includes(lowerQuery, "farming")
      THEN "SELECT * FROM survey_data WHERE Industry_name_NZSIOC LIKE '%Agriculture%' LIMIT 50"
      ELSE IF includes(lowerQuery, "financial performance")
      THEN "SELECT * FROM survey_data WHERE Variable_category = 'Financial performance' LIMIT 50"
      ELSE IF includes(lowerQuery, "employment")
      THEN "SELECT * FROM survey_data WHERE Variable_category = 'Employment' LIMIT 50"
      ELSE IF includes(lowerQuery, "industry") /\ includes(lowerQuery, "top")
      THEN "SELECT Industry_name_NZSIOC, Value FROM survey_data WHERE Variable_name = 'Total income' ORDER BY CAST(Value AS DECIMAL) DESC LIMIT 10"
      ELSE "SELECT * FROM survey_data LIMIT 20"

\* what the user types into the question box (the Generate button is
\* disabled for a blank question)
Questions ==
  {"Find agriculture industry data",
   "AGRICULTURE",
   "Show all agriculture data",
   "Agriculture data for small farms",
   "Total income of agriculture",
   "Find financial performance data for agriculture industry",
   "farming",
   "Employment",
   "Top industry",
   "hello"}

\* data.sql of a 200 response of generate-sql
RemoteSQL == "SELECT * FROM survey_data WHERE Year = '2024' LIMIT 100"

\* a press of the Generate button: the handler runs to its fetch
GenerateSQLQuery(question) ==
  /\ ~isGenerating
  /\ trim(question) /= ""
  /\ isGenerating' = TRUE
  /\ error' = ""
  /\ gen' = [pc |-> "fetch", question |-> question, outcome |-> "none"]
  /\ UNCHANGED <<csvData, loadedData, call, useLocalCSV, isExecuting,
                 queryResult, exec, generatedSQL>>

\* GenerateSettles whose catch reports the failure instead of falling back
GenerateSettles_noCatchFallback(outcome) ==
  /\ gen.pc = "fetch"
  /\ IF outcome = "data"
     THEN generatedSQL' = RemoteSQL /\ UNCHANGED error
     ELSE IF outcome = "notOk"
     THEN generatedSQL' = generateSimpleSQL(gen.question) /\ UNCHANGED error
     ELSE error' = (IF outcome = "throws" THEN NetworkErrorMessage
                    ELSE ServerErrorMessage) /\ UNCHANGED generatedSQL
  /\ isGenerating' = FALSE
  /\ gen' = [gen EXCEPT !.pc = "done", !.outcome = outcome]
  /\ UNCHANGED <<csvData, loadedData, call, useLocalCSV, isExecuting,
                 queryResult, exec>>

\* the fetch of generate-sql settles and the handler runs to its end: a
\* result is stored; after a response that is not OK, and in the catch
\* after a rejected fetch or an error field, generateSimpleSQL is called,
\* which returns for every string, so the inner catch is never entered
GenerateSettles(outcome) ==
  /\ gen.pc = "fetch"
  /\ generatedSQL' = IF outcome = "data" THEN RemoteSQL
                     ELSE generateSimpleSQL(gen.question)
  /\ isGenerating' = FALSE
  /\ gen' = [gen EXCEPT !.pc = "done", !.outcome = outcome]
  /\ UNCHANGED <<csvData, loadedData, call, useLocalCSV, isExecuting, error,
                 queryResult, exec>>

NextGen ==
  \/ \E question \in Questions : GenerateSQLQuery(question)
  \/ \E outcome \in FetchOutcomes : GenerateSettles(outcome)

SpecGen == Init /\ [][NextGen]_vars

(***************************************************************************)
(* The component with both handlers.  A call that has started returns, and *)
(* a pending fetch settles and its continuation runs as soon as no call is *)
(* in progress: the promise of fetch resolves or rejects, and the event    *)
(* loop runs the continuation of a settled promise.                        *)
(***************************************************************************)

\* the queries and questions the two buttons are pressed with
BusyQueries ==
  {q \in Queries : q.text \in {"SELECT * FROM t", "DELETE FROM t"}}

BusyQuestions == {"Find agriculture industry data", "hello"}

NextBusy ==
  \/ \E data \in PapaResults : LoadCSVDataFromFile(data)
  \/ Return
  \/ \E checked \in BOOLEAN : SetUseLocalCSV(checked)
  \/ \E q \in BusyQueries : ExecuteQuery(q)
  \/ \E outcome \in FetchOutcomes : FetchSettles(outcome)
  \/ \E question \in BusyQuestions : GenerateSQLQuery(question)
  \/ \E outcome \in FetchOutcomes : GenerateSettles(outcome)

\* the pending fetch of execute-sql settles in one of the FetchOutcomes
FetchSettlesSomehow ==
  \/ FetchSettles("throws")
  \/ FetchSettles("errorField")
  \/ FetchSettles("notOk")
  \/ FetchSettles("data")

SpecBusy ==
  /\ Init
  /\ [][NextBusy]_vars
  /\ WF_vars(Return)
  /\ SF_vars(FetchSettlesSomehow)
  /\ WF_vars(\E outcome \in FetchOutcomes : GenerateSettles(outcome))

(***************************************************************************)
(* Properties.                                                             *)
(***************************************************************************)

EngineCall == call.op \in {"local", "server"}

\* the header positions (1-based) that match a token, compared case-insensitively
Matches(headers, token) ==
  {i \in 1..Len(headers) : toLowerCase(headers[i]) = toLowerCase(token)}

Resolves(headers, token) == Matches(headers, token) /= {}

\* the rows of a table, in table order, whose cell in column i (1-based)
\* contains needle, both lower-cased
RowsContaining(rows, i, needle) ==
  SelectSeq(rows, LAMBDA row : includes(toLowerCase(row[i]), toLowerCase(needle)))

\* a literal that holds one of the words that end the WHERE text
HasClauseEnd(text) ==
  \E p \in 1..Len(text) : SpaceThen(text, p, "limit") \/ SpaceThen(text, p, "order")

\* C1: the engine never mutates the Table: after every local executeCSVQuery
\* call, csvData (headers, cells and row order) equals the Table passed in.
C1_TableNeverMutated == call.op = "local" => csvData = call.data

\* C2: calls on one shared Table are independent: the result of every local
\* call equals the result of the same query on the Table as loaded, whatever
\* calls ran before it.
C2_CallsIndependent ==
  call.op = "local" => call.result = executeCSVQuery(call.query.text, loadedData)

\* C3: wildcard idempotence: SELECT * FROM t returns columns equal to the
\* headers and rows equal to the Table's rows, in the same order.
C3_WildcardIdempotence ==
  (EngineCall /\ call.query.kind = "star") =>
     /\ call.result.columns = call.data.headers
     /\ call.result.rows = call.data.rows
     /\ call.result.rowCount = Len(call.data.rows)

C3_Witness ==
  /\ call.op = "local"
  /\ call.query.text = "SELECT * FROM t"
  /\ Len(call.data.headers) = 3
  /\ Len(call.result.rows) = 3

\* C4: padding invariant: every row of a loaded Table has exactly
\* len(headers) cells; a shorter source row is padded with empty strings and
\* a longer one is truncated.
C4_PaddingInvariant ==
  /\ csvData /= NoData =>
       \A r \in 1..Len(csvData.rows) : Len(csvData.rows[r]) = Len(csvData.headers)
  /\ call.op = "server" =>
       \A r \in 1..Len(call.data.rows) :
          Len(call.data.rows[r]) = Len(call.data.headers)
  /\ (call.op = "load" /\ ~call.failed) =>
       LET source == SelectSeq(Tail(call.input), someCell)
       IN  /\ Len(csvData.rows) = Len(source)
           /\ \A r \in 1..Len(source) : \A k \in 1..Len(csvData.headers) :
                csvData.rows[r][k] =
                  IF k <= Len(source[r]) THEN trim(source[r][k]) ELSE ""

C4_Witness ==
  /\ call.op = "load"
  /\ ~call.failed
  /\ \E r \in 2..Len(call.input) :
        someCell(call.input[r]) /\ Len(call.input[r]) < Len(csvData.headers)
  /\ \E r \in 2..Len(call.input) : Len(call.input[r]) > Len(csvData.headers)

\* C5: the loader fails with an error on empty raw CSV input: it returns no
\* Table.
C5_EmptyInputFails ==
  /\ (call.op = "server" /\ call.csvText = "") => call.failed
  /\ (call.op = "load" /\ call.input = <<>>) => call.failed

\* C6: unsupported query fallback: a query whose lower-cased text does not
\* contain "select" yields columns = ["message"], exactly one row holding the
\* fixed message, and rowCount = 1.
C6_UnsupportedFallback ==
  (EngineCall /\ ~includes(toLowerCase(call.query.text), "select")) =>
     /\ call.result.columns = <<"message">>
     /\ call.result.rows =
          <<<<"Query type not supported. Please use SELECT statements.">>>>
     /\ call.result.rowCount = 1

C6_Witness ==
  /\ call.op = "local"
  /\ call.query.text = "SeLEc * FROM t"
  /\ Len(call.data.rows) = 3
  /\ call.result.rowCount = 1

\* C7: unresolved column fallback: every token of a SELECT column list that
\* matches no header resolves to the first column, and a token that matches
\* resolves to the first header with that name; the rows are the Table's rows
\* projected on the resolved columns.
C7_Resolve(headers, token) ==
  IF Resolves(headers, token) THEN Min(Matches(headers, token)) ELSE 1

C7_UnresolvedColumnFallback ==
  (EngineCall /\ call.query.kind = "project") =>
     LET cols == call.query.cols
         data == call.data
     IN  /\ call.result.columns =
              [k \in 1..Len(cols) |-> data.headers[C7_Resolve(data.headers, cols[k])]]
         /\ call.result.rows =
              [r \in 1..Len(data.rows) |->
                 [k \in 1..Len(cols) |->
                    data.rows[r][C7_Resolve(data.headers, cols[k])]]]

C7_Witness ==
  /\ call.op = "local"
  /\ call.query.text = "SELECT nonexistent_col FROM t"
  /\ call.result.columns = <<"Industry_name_NZSIOC">>
  /\ call.result.rows =
       <<<<"Agriculture, Forestry and Fishing">>, <<"Mining">>, <<"a=b">>>>

\* C8: fuzzy equals: for WHERE <column> = '<value>' whose column resolves to
\* a header, a row is kept if and only if its lower-cased cell contains the
\* lower-cased, quote-stripped value.
C8_FuzzyEquals ==
  (/\ EngineCall
   /\ call.query.kind = "equals"
   /\ call.query.limit = NoLimit
   /\ Resolves(call.data.headers, call.query.col)
   /\ ~HasClauseEnd(call.query.val)) =>
     call.result.rows =
       RowsContaining(call.data.rows,
                      Min(Matches(call.data.headers, call.query.col)),
                      removeChars(call.query.val, QuoteSet))

\* the WHERE text of an equals query, as the query text was built
EqualsClause(q) == q.col \o " = '" \o q.val \o "'"

\* the text after the first "=" of a clause
AfterFirstEquals(clause) ==
  substring(clause, Min({k \in 1..Len(clause) : CharAt(clause, k) = "="}) + 1,
            Len(clause))

\* C9: the WHERE clause is split on the first "=" only: the value token is
\* all the text after the first "=", so later "=" characters stay in the
\* value the cells are matched against.
C9_SplitOnFirstEquals ==
  (/\ EngineCall
   /\ call.query.kind = "equals"
   /\ call.query.limit = NoLimit
   /\ Resolves(call.data.headers, call.query.col)
   /\ ~HasClauseEnd(EqualsClause(call.query))) =>
     \A r \in 1..Len(call.data.rows) :
        (\E k \in 1..Len(call.result.rows) : call.result.rows[k] = call.data.rows[r])
          <=> includes(toLowerCase(call.data.rows[r][
                         Min(Matches(call.data.headers, call.query.col))]),
                       toLowerCase(removeChars(
                         trim(AfterFirstEquals(EqualsClause(call.query))),
                         QuoteSet)))

\* C10: LIKE filter: for WHERE <column> LIKE '<pattern>' with no "=" and a
\* column that resolves to a header, the engine keeps a row if and only if
\* its lower-cased cell contains the lower-cased pattern with every "%"
\* removed.
C10_LikeFilter ==
  (/\ EngineCall
   /\ call.query.kind = "like"
   /\ ~includes(call.query.val, "=")
   /\ ~HasClauseEnd(call.query.val)
   /\ Resolves(call.data.headers, call.query.col)) =>
     call.result.rows =
       RowsContaining(call.data.rows,
                      Min(Matches(call.data.headers, call.query.col)),
                      removeChars(call.query.val, {"%"}))

\* C11: a WHERE clause that cannot be interpreted filters nothing: with
\* neither "=" nor a matching like form, or with a column token that resolves
\* to no header, every row of the Table passes.
C11_UninterpretableWhere ==
  (/\ EngineCall
   /\ \/ call.query.kind = "opaque"
      \/ /\ call.query.kind \in {"equals", "like"}
         /\ ~Resolves(call.data.headers, call.query.col)
   /\ call.query.limit = NoLimit) =>
     /\ call.result.columns = call.data.headers
     /\ call.result.rows = call.data.rows

C11_Witness ==
  /\ call.op = "local"
  /\ call.query.text = "SELECT * FROM t WHERE id LIKE abc"
  /\ Len(call.data.rows) = 3
  /\ call.result.rowCount = 3

\* the two sequences hold the same rows the same number of times
SameRows(a, b) ==
  /\ Len(a) = Len(b)
  /\ \A k \in 1..Len(a) :
       Cardinality({j \in 1..Len(a) : a[j] = a[k]}) =
         Cardinality({j \in 1..Len(b) : b[j] = a[k]})

\* cell lo may stand before cell hi: by value when both parse as numbers,
\* by string comparison otherwise
NotAfter(lo, hi) ==
  IF ~isNaN(parseFloat(lo)) /\ ~isNaN(parseFloat(hi))
  THEN parseFloat(lo).num <= parseFloat(hi).num
  ELSE localeCompare(lo, hi) <= 0

\* C12: ORDER BY on a resolved column returns the rows in non-decreasing
\* order of that column, numeric for a pair of cells that both parse as
\* numbers and lexicographic for any other pair; with desc the order is
\* non-increasing.  Without a WHERE clause the result holds every row of the
\* Table once.
C12_OrderBy ==
  (/\ call.op = "local"
   /\ call.query.kind \in {"order", "whereorder"}
   /\ Resolves(call.data.headers, call.query.col)) =>
     LET i == Min(Matches(call.data.headers, call.query.col))
         rows == call.result.rows
     IN  /\ call.query.kind = "order" => SameRows(rows, call.data.rows)
         /\ \A k \in 1..(Len(rows) - 1) :
              IF call.query.dir = " DESC"
              THEN NotAfter(rows[k + 1][i], rows[k][i])
              ELSE NotAfter(rows[k][i], rows[k + 1][i])

C12_Witness ==
  /\ call.op = "local"
  /\ call.query.text = "SELECT * FROM t ORDER BY Value"
  /\ [k \in 1..Len(call.data.rows) |-> call.data.rows[k][2]] = <<"10", "2", "33">>
  /\ [k \in 1..Len(call.result.rows) |-> call.result.rows[k][2]] = <<"2", "10", "33">>

\* the rows that pass the WHERE step of a query whose clause is col = 'val'
FilteredBy(q, data) ==
  IF q.kind = "wherelimit" /\ Resolves(data.headers, q.col)
  THEN RowsContaining(data.rows, Min(Matches(data.headers, q.col)), q.val)
  ELSE data.rows

\* C13: LIMIT n returns the first min(n, filtered count) of the filtered
\* rows in their order: none for LIMIT 0, all of them unchanged for n at or
\* above the filtered count, and all of them when there is no LIMIT clause.
C13_LimitBoundary ==
  (EngineCall /\ call.query.kind \in {"star", "limit", "wherelimit"}) =>
     LET filtered == FilteredBy(call.query, call.data)
         n == call.query.limit
         m == IF n = NoLimit \/ n >= Len(filtered) THEN Len(filtered) ELSE n
     IN  /\ call.result.rows = SubSeq(filtered, 1, m)
         /\ call.result.rowCount = m

C13_Witness ==
  /\ call.op = "local"
  /\ call.query.kind = "limit"
  /\ call.query.limit = 0
  /\ Len(call.data.rows) = 3
  /\ call.result.rows = <<>>
  /\ call.result.rowCount = 0

\* the position (1-based) of the Table column a SELECT list name stands for
RequestedPos(headers, name) ==
  IF Resolves(headers, name) THEN Min(Matches(headers, name)) ELSE 1

\* C14: every ResultSet has rowCount = Len(rows) and rows of exactly
\* Len(columns) cells; for a SELECT list there is one column per requested
\* name and each row holds the cells of those columns in the requested order.
C14_ResultSetShape ==
  EngineCall =>
    LET res == call.result
        q == call.query
    IN  /\ res.rowCount = Len(res.rows)
        /\ \A r \in 1..Len(res.rows) : Len(res.rows[r]) = Len(res.columns)
        /\ q.kind = "project" =>
             /\ Len(res.columns) = Len(q.cols)
             /\ Len(res.rows) = Len(call.data.rows)
             /\ \A r \in 1..Len(res.rows) : \A k \in 1..Len(q.cols) :
                  res.rows[r][k] =
                    call.data.rows[r][RequestedPos(call.data.headers, q.cols[k])]

C14_Witness ==
  /\ call.op = "local"
  /\ call.query.cols = <<"id", "Val">>
  /\ call.data.headers = <<"Val", "Id", "id">>
  /\ call.result.columns = <<"Id", "Val">>
  /\ call.result.rowCount = 3
  /\ call.result.rows[1] = <<"b", "2">>

\* a ResultSet: named columns, rows of cells, a row count
IsResultSet(res) ==
  /\ DOMAIN res = {"columns", "rows", "rowCount"}
  /\ res.columns \in Seq(STRING)
  /\ \A r \in 1..Len(res.rows) : res.rows[r] \in Seq(STRING)
  /\ res.rowCount \in Nat

\* C15: the engine never fails: whatever the query text and the loaded
\* Table, the call raises no exception and returns a ResultSet.
C15_EngineNeverFails ==
  EngineCall => ~call.threw /\ IsResultSet(call.result)

C15_Witness ==
  /\ call.op = "local"
  /\ call.query.text = "SELECT * FROM t WHERE Value"
  /\ Resolves(call.data.headers, "Value")
  /\ ~call.threw
  /\ call.result.rowCount = 3

HasChar(v, c) == \E i \in 1..Len(v) : CharAt(v, i) = c

\* C16: inside a quoted field a doubled quote is one literal quote
\* character and does not end the quoted section: a row written as quoted
\* fields with every quote doubled parses back to the field values.
C16_QuoteEscaping ==
  \A f1, f2 \in FieldValues :
    (/\ call.op = "server"
     /\ call.csvText = QuotedRowText(f1, f2)
     /\ HasChar(f1, "\"") \/ HasChar(f2, "\"")) =>
       call.data.rows[1] = <<trim(f1), trim(f2)>>

C16_Witness ==
  /\ call.op = "server"
  /\ call.csvText = "h1,h2\n\"a\"\"b\",\"c,d\"\nz,9"
  /\ call.data.rows[1] = <<"a\"b", "c,d">>

\* C17: a data row whose physical line has an odd number of quotes is joined
\* with the following lines, a newline between them, until the quote count
\* is even or the input ends; the joined lines are one logical row with the
\* newlines kept in the field, and they produce no rows of their own.
C17_MultiLineField ==
  /\ \A f1, f2 \in FieldValues :
       (/\ call.op = "server"
        /\ call.csvText = QuotedRowText(f1, f2)
        /\ HasChar(f1, "\n") \/ HasChar(f2, "\n")) =>
          call.data.rows = <<<<trim(f1), trim(f2)>>, <<"z", "9">>>>
  /\ (call.op = "server" /\ call.csvText = UnterminatedText) =>
       call.data.rows = <<<<"1", "2">>, <<"open\nrest,3", "">>>>

C17_Witness ==
  /\ call.op = "server"
  /\ call.csvText = QuotedRowText("a\n\nb\"", "p\nq")
  /\ call.data.rows = <<<<"a\n\nb\"", "p\nq">>, <<"z", "9">>>>

\* the orders in which the rows of a sequence can be arranged
Arrangements(rows) ==
  {[k \in 1..Len(rows) |-> rows[p[k]]] :
     p \in {f \in [1..Len(rows) -> 1..Len(rows)] :
              \A a, b \in 1..Len(rows) : f[a] = f[b] => a = b}}

\* rows stand in the order of column i (1-based), descending for " DESC"
SortedBy(rows, i, dir) ==
  \A k \in 1..(Len(rows) - 1) :
    IF dir = " DESC" THEN NotAfter(rows[k + 1][i], rows[k][i])
    ELSE NotAfter(rows[k][i], rows[k + 1][i])

\* C20: the clauses apply in the order filter, sort, limit, project: for a
\* query with WHERE, ORDER BY Value and LIMIT n the result is the projection
\* of the first n rows of the whole filtered row set in sorted order, and
\* the filter and the sort read the Table's columns whether or not the
\* SELECT list names them.
C20_ClauseOrder ==
  (call.op = "local" /\ call.query.kind = "clauses") =>
    LET q == call.query
        headers == call.data.headers
        filtered ==
          IF Resolves(headers, q.col)
          THEN RowsContaining(call.data.rows, Min(Matches(headers, q.col)), q.val)
          ELSE call.data.rows
        sortings ==
          IF Resolves(headers, "Value")
          THEN {S \in Arrangements(filtered) :
                  SortedBy(S, Min(Matches(headers, "Value")), q.dir)}
          ELSE {filtered}
        n == IF q.limit < Len(filtered) THEN q.limit ELSE Len(filtered)
        pos == RequestedPos(headers, q.cols[1])
    IN  \E S \in sortings :
          call.result.rows = [k \in 1..n |-> <<S[k][pos]>>]

C20_Witness ==
  /\ call.op = "local"
  /\ call.query.text =
       "SELECT Industry_name_NZSIOC FROM t WHERE Industry_name_NZSIOC = 'i' ORDER BY Value LIMIT 1"
  /\ call.data.rows[1] = <<"Agriculture, Forestry and Fishing", "10">>
  /\ call.data.rows[2] = <<"Mining", "2">>
  /\ call.result.rows = <<<<"Mining">>>>

\* C18: when the server path of executeQuery fails (a response that is not
\* OK, a rejected fetch, or a response with an error field) the local engine
\* is attempted once, and an error message is shown only if there is no CSV
\* data for it.
C18_FallbackChain ==
  (exec.pc = "done" /\ exec.outcome \in {"notOk", "throws", "errorField"}) =>
    /\ exec.loaded => exec.localCalls = 1 /\ error = ""
    /\ ~exec.loaded => error /= ""

\* C19: an executeQuery invocation started with "Use local CSV processing"
\* checked never calls execute-sql: it runs the local engine once when CSV
\* data is loaded and reports an error when none is.
C19_LocalOnly ==
  (exec.pc /= "idle" /\ exec.useLocal) =>
    /\ exec.pc = "done"
    /\ exec.serverCalls = 0
    /\ exec.outcome = "none"
    /\ IF exec.loaded THEN exec.localCalls = 1 /\ error = ""
       ELSE exec.localCalls = 0 /\ error = NoCsvMessage

C19_Witness ==
  /\ useLocalCSV
  /\ exec.pc = "done"
  /\ exec.useLocal
  /\ exec.loaded
  /\ exec.query.text = "SELECT * FROM t LIMIT 1"
  /\ queryResult /= NoData
  /\ queryResult.rowCount = 1
  /\ error = ""

\* C21: the column names of a SELECT result come from the Table: every
\* entry of columns is a header in its original case; a SELECT list gives
\* the headers of the requested columns in the requested order, and * gives
\* the whole header sequence.
C21_ColumnNamesFromTable ==
  (EngineCall /\ includes(toLowerCase(call.query.text), "select")) =>
    LET columns == call.result.columns
        headers == call.data.headers
        q == call.query
    IN  /\ \A k \in 1..Len(columns) : \E i \in 1..Len(headers) : columns[k] = headers[i]
        /\ q.kind = "star" => columns = headers
        /\ q.kind = "project" =>
             columns = [k \in 1..Len(q.cols) |-> headers[RequestedPos(headers, q.cols[k])]]

C21_Witness ==
  /\ call.op = "local"
  /\ call.query.cols = <<"VALUE", "nope", "Industry_name_NZSIOC">>
  /\ call.result.columns = <<"Value", "Industry_name_NZSIOC", "Industry_name_NZSIOC">>

\* the first physical line of a text
FirstLine(text) == split(text, "\n")[1]

\* the commas of a line that have an even number of quotes before them
UnquotedCommas(line) ==
  {i \in 1..Len(line) :
     /\ CharAt(line, i) = ","
     /\ Cardinality({j \in 1..(i - 1) : CharAt(line, j) = "\""}) % 2 = 0}

\* C22: a comma outside quotes ends the field and a comma inside quotes
\* stays in it, so a line has one cell more than it has unquoted commas;
\* every field is trimmed, whitespace inside the quotes included.
C22_CommaSplitting ==
  call.op = "server" =>
    /\ Len(call.data.headers) =
         1 + Cardinality(UnquotedCommas(FirstLine(call.csvText)))
    /\ \A k \in 1..Len(call.data.headers) :
         call.data.headers[k] = trim(call.data.headers[k])
    /\ \A f1, f2 \in FieldValues :
         (/\ call.csvText = QuotedRowText(f1, f2)
          /\ \E f \in {f1, f2} : HasChar(f, ",") \/ HasChar(f, " ")) =>
            call.data.rows[1] = <<trim(f1), trim(f2)>>

C22_Witness ==
  /\ call.op = "server"
  /\ call.csvText = QuotedHeaderText
  /\ call.data.headers = <<"Last, First", "Age", "City", "">>
  /\ call.data.rows = <<<<"x", "1", "y", "w">>>>

\* C23: a physical line that is empty or white space only, met where a row
\* would start, is skipped and gives no row: a file of two rows has two
\* Table rows however many blank lines stand before, between and after them.
C23_BlankLinesSkipped ==
  \A b1, b2, b3 \in BlankLines :
    (call.op = "server" /\ call.csvText = BlankLineText(b1, b2, b3)) =>
      call.data.rows = <<<<"a", "1">>, <<"b", "2">>>>

C23_Witness ==
  /\ call.op = "server"
  /\ call.csvText = "h1,h2\n \t\na,1\n\r\n\nb,2\n\n"
  /\ Len(call.data.rows) = 2

\* C24: generateSimpleSQL translates every question that contains
\* "agriculture", in any case and among any other words, into the query
\* whose WHERE clause is Industry_name_NZSIOC LIKE '%Agriculture%'.
C24_AgricultureTemplate ==
  (/\ gen.pc = "done"
   /\ gen.outcome /= "data"
   /\ includes(toLowerCase(gen.question), "agriculture")) =>
     includes(generatedSQL, "WHERE Industry_name_NZSIOC LIKE '%Agriculture%'")

\* a request of the execute-sql handler that has been answered
Served == call.op \in {"server", "serverNoCsv"}

\* C25: the execute-sql handler reads ./sample_data.csv first; it reads the
\* one alternate path only if that read failed; it answers 400 with the
\* read error only if both reads failed, and otherwise goes on with the text
\* of the first path that could be read; no path is read twice and at most
\* two paths are read.
C25_SingleLevelFallback ==
  Served =>
    LET dir == call.dir
        reads == call.reads
    IN  /\ Len(reads) \in {1, 2}
        /\ reads[1] = csvPath
        /\ Len(reads) = 2 <=> ~dir[csvPath].exists
        /\ Len(reads) = 2 => reads[2] = fullDataPath
        /\ call.op = "serverNoCsv" <=>
             (~dir[csvPath].exists /\ ~dir[fullDataPath].exists)
        /\ call.op = "serverNoCsv" =>
             (call.status = 400 /\ call.error /= "")
        /\ call.op = "server" =>
             call.csvText = dir[reads[Len(reads)]].text

\* the sample is missing and the full data file is read and served
C25_Witness ==
  /\ call.op = "server"
  /\ ~call.dir[csvPath].exists
  /\ call.reads = <<csvPath, fullDataPath>>
  /\ call.csvText = "h1,h2\na,1"
  /\ call.status = 200
  /\ call.result.rows = <<<<"a", "1">>>>

\* neither file can be read and the request is answered with 400
C25_WitnessNoCsv ==
  /\ call.op = "serverNoCsv"
  /\ call.reads = <<csvPath, fullDataPath>>
  /\ call.status = 400

\* C26: every failure of the remote generate-sql call (a response that is
\* not OK, a rejected fetch, an error payload) ends with generatedSQL set to
\* generateSimpleSQL of the question and with no error message set by the
\* handler: error stays as the start of the handler cleared it.
C26_GenerationFallsBack ==
  [][(gen.pc = "fetch" /\ gen'.pc = "done" /\ gen'.outcome /= "data") =>
       /\ generatedSQL' = generateSimpleSQL(gen.question)
       /\ error' = error
       /\ error' = ""
       /\ ~isGenerating']_vars

\* a rejected fetch has left the rule-based query and no message
C26_Witness ==
  /\ gen.pc = "done"
  /\ gen.outcome = "throws"
  /\ gen.question = "Find agriculture industry data"
  /\ generatedSQL =
       "SELECT * FROM survey_data WHERE Industry_name_NZSIOC LIKE '%Agriculture%' LIMIT 50"
  /\ error = ""

\* C27: for every Table and every query text without "order by", the server
\* executeCSVQuery and the client executeCSVQuery return the same columns
\* and the same rows, queries whose WHERE clause uses LIKE included.
C27_EnginesAgree ==
  (EngineCall /\ ~includes(toLowerCase(call.query.text), "order by")) =>
    /\ serverExecuteThrows(call.query.text, call.data)
         = executeThrows(call.query.text, call.data)
    /\ serverExecuteCSVQuery(call.query.text, call.data)
         = executeCSVQuery(call.query.text, call.data)

\* C28: isExecuting is true exactly while an executeQuery call is pending,
\* and every pending call completes with the flag false again, whether the
\* server answered, the local engine ran or an error was reported; likewise
\* isGenerating for generateSQLQuery.  No path leaves a flag stuck at true.
C28_BusyFlagsReleased ==
  /\ [](isExecuting <=> exec.pc = "fetch")
  /\ [](isGenerating <=> gen.pc = "fetch")
  /\ (exec.pc = "fetch") ~> (exec.pc = "done" /\ ~isExecuting)
  /\ (gen.pc = "fetch") ~> (gen.pc = "done" /\ ~isGenerating)

\* both handlers have ended in their catch blocks with the flags released
C28_Witness ==
  /\ exec.pc = "done"
  /\ exec.outcome = "notOk"
  /\ ~exec.loaded
  /\ error = NoCsvMessage
  /\ ~isExecuting
  /\ gen.pc = "done"
  /\ gen.outcome = "throws"
  /\ ~isGenerating

\* the csvData an executeQuery invocation works on: what it closed over when
\* it started, which for a call that starts in this step is the current one
ClosedOverData == IF exec.pc = "fetch" THEN exec.data ELSE csvData

\* C29: each executeQuery call clears error at its start; a call that
\* succeeds, on the server or locally, sets queryResult to the new ResultSet
\* and leaves error empty; a call that fails sets error to the failure
\* message and leaves queryResult as it was.
C29_ResultAndError ==
  [][/\ (exec.pc /= "fetch" /\ exec'.pc = "fetch") =>
          (error' = "" /\ queryResult' = queryResult)
     /\ (exec' /= exec /\ exec'.pc = "done") =>
          IF exec'.outcome = "data"
          THEN /\ queryResult' = ServerQueryResult(exec'.query)
               /\ error' = ""
          ELSE IF exec'.localCalls = 1
          THEN /\ queryResult' = executeCSVQuery(exec'.query.text, ClosedOverData)
               /\ error' = ""
          ELSE /\ error' \in {ServerErrorMessage, NetworkErrorMessage, NoCsvMessage}
               /\ error' /= ""
               /\ queryResult' = queryResult]_vars

\* a call has failed without CSV data and the result of an earlier call is
\* still displayed
C29_Witness ==
  /\ exec.pc = "done"
  /\ exec.outcome = "notOk"
  /\ exec.data = NoData
  /\ error = NoCsvMessage
  /\ queryResult /= NoData
  /\ queryResult.rowCount > 0

\* the text of an ORDER BY query of the model with its ORDER BY clause left out
WithoutOrderBy(q) ==
  IF q.kind = "template"
  THEN "SELECT Industry_name_NZSIOC, Value FROM survey_data WHERE Variable_name = 'Total income' LIMIT 10"
  ELSE "SELECT * FROM t"

\* C30: when the word after "order by" (cast in ORDER BY CAST(Value AS
\* DECIMAL) DESC) is no header, the client engine sorts nothing: the result
\* is that of the same query without its ORDER BY clause, the rows in their
\* filtered Table order; column 0 is not used instead, nothing is thrown and
\* the Table keeps its row order.
C30_UnresolvedSortKey ==
  (/\ call.op = "local"
   /\ call.query.kind \in {"order", "template"}
   /\ ~Resolves(call.data.headers, call.query.col)) =>
     /\ orderMatch(trim(toLowerCase(call.query.text)))[1] = toLowerCase(call.query.col)
     /\ ~call.threw
     /\ call.result = executeCSVQuery(WithoutOrderBy(call.query), call.data)
     /\ call.query.kind = "order" => call.result.rows = call.data.rows
     /\ csvData.rows = call.data.rows

\* the generated top-industries query returns the rows in Table order, which
\* is neither the order of Value nor the descending order of the first column
C30_Witness ==
  /\ call.op = "local"
  /\ call.query.text = TopIndustriesSQL
  /\ call.data.headers = <<"Industry_name_NZSIOC", "Value">>
  /\ call.result.rows = <<<<"Agriculture, Forestry and Fishing", "10">>,
                          <<"Mining", "2">>,
                          <<"a=b", "33">>>>
  /\ csvData.rows = call.result.rows

====
